---- MODULE Spec2Model ----
(***************************************************************************)
(* Two-pass alpha extraction (pngalpha.core.extract_alpha_two_pass).       *)
(*                                                                         *)
(* The arithmetic of the source is numpy float64.  It is modelled here as  *)
(* IEEE-754 binary64 with round-to-nearest-even: a float is a triple       *)
(* <<s, m, e>> of a sign s in {-1, 0, 1}, a 53-bit significand m and an    *)
(* exponent e, of value s * m * 2^e.  Significands do not fit the integers *)
(* of the model checker, so m is a pair <<hi, lo>> of value                *)
(* hi * 2^30 + lo.                                                         *)
(***************************************************************************)
EXTENDS Integers, Naturals, Sequences, FiniteSets, TLC

(***************************************************************************)
(* Two-limb naturals.                                                      *)
(***************************************************************************)
Limb == 2^30

BZero == <<0, 0>>

BIsZero(a) == a[1] = 0 /\ a[2] = 0

BAdd(a, b) == <<a[1] + b[1] + ((a[2] + b[2]) \div Limb), (a[2] + b[2]) % Limb>>

\* a - b, for a >= b
BSub(a, b) ==
    IF a[2] < b[2] THEN <<a[1] - b[1] - 1, (a[2] - b[2]) + Limb>>
    ELSE <<a[1] - b[1], a[2] - b[2]>>

BLeq(a, b) == a[1] < b[1] \/ (a[1] = b[1] /\ a[2] <= b[2])

BLess(a, b) == a[1] < b[1] \/ (a[1] = b[1] /\ a[2] < b[2])

BOdd(a) == a[2] % 2 = 1

\* a * 2, a * 2 + 1, a * 4, a * 4 + 1, a * 8
BDouble(a) == <<2 * a[1] + (a[2] \div (2^29)), 2 * (a[2] % (2^29))>>

BDoubleInc(a) == <<2 * a[1] + (a[2] \div (2^29)), 2 * (a[2] % (2^29)) + 1>>

BQuad(a) == <<4 * a[1] + (a[2] \div (2^28)), 4 * (a[2] % (2^28))>>

BQuadInc(a) == <<4 * a[1] + (a[2] \div (2^28)), 4 * (a[2] % (2^28)) + 1>>

BTimes8(a) == <<8 * a[1] + (a[2] \div (2^27)), 8 * (a[2] % (2^27))>>

BInc(a) == IF a[2] + 1 = Limb THEN <<a[1] + 1, 0>> ELSE <<a[1], a[2] + 1>>

\* a \div 2 and a \div 8
BHalf(a) == <<a[1] \div 2, (a[1] % 2) * (2^29) + (a[2] \div 2)>>

BEighth(a) == <<a[1] \div 8, (a[1] % 8) * (2^27) + (a[2] \div 8)>>

\* shift right by one bit, or-ing the bit shifted out into the new low bit
BHalfJam(a) ==
    <<a[1] \div 2,
      (a[1] % 2) * (2^29) + (a[2] \div 2)
        + (IF a[2] % 4 = 1 THEN 1 ELSE 0)>>

RECURSIVE BShiftRightJam(_, _)
BShiftRightJam(a, d) ==
    IF d = 0 \/ BIsZero(a) THEN a
    ELSE IF a[1] = 0 /\ a[2] = 1 THEN a
    ELSE BShiftRightJam(BHalfJam(a), d - 1)

\* a * k for a significand a < 2^53 and a small k (k < 2^8)
BMulSmall(a, k) ==
    LET half == 2^15
        l0 == a[2] % half
        l1 == a[2] \div half
        t0 == k * l0
        t1 == k * l1 + (t0 \div half)
    IN  <<k * a[1] + (t1 \div half), (t1 % half) * half + (t0 % half)>>

(***************************************************************************)
(* binary64.                                                               *)
(***************************************************************************)
FZero == <<0, BZero, 0>>

\* 2^55 and 2^56 as high limbs: a significand with three extra low bits
Hi55 == 2^25
Hi56 == 2^26
\* 2^53 and 2^52
Big53 == <<8388608, 0>>
Big52 == <<4194304, 0>>

\* Round a significand p carrying three extra low bits (the lowest one
\* sticky) at exponent e to 53 bits, nearest-even, after normalising it.
RECURSIVE NormRound(_, _, _)
NormRound(s, p, e) ==
    IF BIsZero(p) THEN FZero
    ELSE IF p[1] >= Hi56 THEN NormRound(s, BHalfJam(p), e + 1)
    ELSE IF p[1] < Hi55 THEN NormRound(s, BDouble(p), e - 1)
    ELSE LET m   == BEighth(p)
             low == p[2] % 8
             up  == low > 4 \/ (low = 4 /\ BOdd(m))
             r   == IF up THEN BInc(m) ELSE m
         IN  IF r = Big53 THEN <<s, Big52, e + 4>> ELSE <<s, r, e + 3>>

\* the float of an integer 0 < n < 2^23, as <<high limb, exponent>>
RECURSIVE NormInt(_, _)
NormInt(n, e) == IF n >= 2^22 THEN <<n, e>> ELSE NormInt(2 * n, e - 1)

\* an integer -2^23 < n < 2^23 as a float (exact)
FromInt(n) ==
    IF n = 0 THEN FZero
    ELSE LET a == IF n > 0 THEN n ELSE -n
             t == NormInt(a, -30)
         IN  <<IF n > 0 THEN 1 ELSE -1, <<t[1], 0>>, t[2]>>

FOne == <<1, <<4194304, 0>>, -52>>

\* |x| < |y| for nonzero x, y
MagLess(x, y) == x[3] < y[3] \/ (x[3] = y[3] /\ BLess(x[2], y[2]))

\* x < y
FLess(x, y) ==
    IF x[1] # y[1] THEN x[1] < y[1]
    ELSE IF x[1] = 0 THEN FALSE
    ELSE IF x[1] = 1 THEN MagLess(x, y)
    ELSE MagLess(y, x)

\* n quotient bits of r / d by restoring division; st = <<quotient, remainder>>
RECURSIVE DivLoop(_, _, _)
DivLoop(st, d, n) ==
    IF n = 0 THEN st
    ELSE IF BLeq(d, st[2])
         THEN DivLoop(<<BDoubleInc(st[1]), BDouble(BSub(st[2], d))>>, d, n - 1)
         ELSE DivLoop(<<BDouble(st[1]), BDouble(st[2])>>, d, n - 1)

\* x / y, correctly rounded; a zero divisor gives the marker DivByZero
DivByZero == <<2, BZero, 0>>

FDiv(x, y) ==
    IF y[1] = 0 \/ x = DivByZero \/ y = DivByZero THEN DivByZero
    ELSE IF x[1] = 0 THEN FZero
    ELSE LET big == BLeq(y[2], x[2])
             r0  == IF big THEN x[2] ELSE BDouble(x[2])
             e0  == IF big THEN x[3] - y[3] - 54 ELSE x[3] - y[3] - 55
             qr  == DivLoop(<<BZero, r0>>, y[2], 55)
             p   == IF BIsZero(qr[2]) THEN BDouble(qr[1]) ELSE BDoubleInc(qr[1])
         IN  NormRound(x[1] * y[1], p, e0 - 1)

\* Square root, two radicand bits at a time; st = <<root, remainder, rest>>
\* where rest holds the radicand bits not yet used, the next two on top of
\* its 54 bits.  SqrtRc is the remainder extended by the next two bits.
SqrtRc(st) == BAdd(BQuad(st[2]), <<0, st[3][1] \div (2^22)>>)

SqrtRest(st) == BQuad(<<st[3][1] % (2^22), st[3][2]>>)

RECURSIVE SqrtLoop(_, _)
SqrtLoop(st, n) ==
    IF n = 0 THEN st
    ELSE IF BLess(SqrtRc(st), BQuadInc(st[1]))
         THEN SqrtLoop(<<BDouble(st[1]), SqrtRc(st), SqrtRest(st)>>, n - 1)
         ELSE SqrtLoop(<<BDoubleInc(st[1]), BSub(SqrtRc(st), BQuadInc(st[1])),
                         SqrtRest(st)>>, n - 1)

\* sqrt(x) for x >= 0, correctly rounded
FSqrt(x) ==
    IF x[1] = 0 THEN FZero
    ELSE LET odd == x[3] % 2 = 1
             m   == IF odd THEN BDouble(x[2]) ELSE x[2]
             e   == IF odd THEN x[3] - 1 ELSE x[3]
             sr  == SqrtLoop(<<BZero, BZero, m>>, 55)
             p   == IF BIsZero(sr[2]) THEN BDouble(sr[1]) ELSE BDoubleInc(sr[1])
         IN  NormRound(1, p, (e \div 2) - 29)

\* x - y for x >= 0 and y >= 0, correctly rounded
FSub(x, y) ==
    IF y[1] = 0 THEN x
    ELSE IF x[1] = 0 THEN <<-1, y[2], y[3]>>
    ELSE LET neg == MagLess(x, y)
             a   == IF neg THEN y ELSE x
             b   == IF neg THEN x ELSE y
             p   == BSub(BTimes8(a[2]), BShiftRightJam(BTimes8(b[2]), a[3] - b[3]))
         IN  NormRound(IF neg THEN -1 ELSE 1, p, a[3] - 3)

\* x * k for a small integer k > 0, correctly rounded
FMulSmall(x, k) ==
    IF x[1] = 0 THEN FZero
    ELSE NormRound(x[1], BMulSmall(x[2], k), x[3])

\* np.clip with its limits exchanged
FClipSwapped(x, lo, hi) == IF FLess(x, hi) THEN hi ELSE IF FLess(lo, x) THEN lo ELSE x

\* np.clip(x, lo, hi)
FClip(x, lo, hi) == IF FLess(x, lo) THEN lo ELSE IF FLess(hi, x) THEN hi ELSE x

\* np.clip(np.round(x), 0, 255).astype(np.uint8): round half to even
RoundClip(x) ==
    IF x = DivByZero THEN 255
    ELSE IF x[1] <= 0 THEN 0
    ELSE IF x[3] > -44 THEN 255
    ELSE IF x[3] < -53 THEN 0
    ELSE LET k    == (-x[3]) - 30
             unit == 2^k
             ip   == x[2][1] \div unit
             fh   == x[2][1] % unit
             hh   == unit \div 2
             gt   == fh > hh \/ (fh = hh /\ x[2][2] > 0)
             tie  == fh = hh /\ x[2][2] = 0
             r    == IF gt \/ (tie /\ ip % 2 = 1) THEN ip + 1 ELSE ip
         IN  IF r > 255 THEN 255 ELSE r

(***************************************************************************)
(* Buffers.  A decoded image is a sequence of rows, each a sequence of     *)
(* pixels, each a tuple of channel samples in 0..255 (numpy shape          *)
(* (h, w, channels)).                                                      *)
(***************************************************************************)
\* bounds of the inputs explored
MaxPixels == 2
MaxCalls == 2

Paths == {"white", "black", "out"}
InPaths == {"white", "black"}
OutPaths == {"out"}

NoFile == <<>>

\* the content of a file that holds no image
NotAnImage == <<(<<>>)>>
Unset == <<>>

Shapes == {sh \in (1..MaxPixels) \X (1..MaxPixels) : sh[1] * sh[2] <= MaxPixels}

ImagesOver(pal) ==
    UNION {[1..sh[1] -> [1..sh[2] -> pal]] : sh \in Shapes}

\* captures of an empty scene and of an opaque white or black subject
SmallPalette == {<<255, 255, 255>>, <<0, 0, 0>>}

\* pairs <<white-capture pixel, black-capture pixel>>: fully transparent,
\* opaque, alpha below and just around the 0.01 threshold, partial coverage,
\* quotients next to a rounding tie
PixelCases ==
    {<<<<255, 255, 255>>, <<0, 0, 0>>>>,
     <<<<200, 50, 50>>, <<200, 50, 50>>>>,
     <<<<255, 255, 255>>, <<2, 2, 2>>>>,
     <<<<255, 255, 255>>, <<0, 1, 7>>>>,
     <<<<255, 255, 255>>, <<2, 2, 3>>>>,
     <<<<86, 86, 86>>, <<1, 1, 1>>>>,
     <<<<240, 240, 240>>, <<3, 3, 3>>>>,
     <<<<200, 100, 100>>, <<100, 50, 50>>>>}

(***************************************************************************)
(* The steps of extract_alpha_two_pass on one element.                     *)
(***************************************************************************)
\* the exception Image.open raises on a file, "none" when it opens
OpenError(file) ==
    IF file = NoFile THEN "FileNotFoundError"
    ELSE IF file = NotAnImage THEN "UnidentifiedImageError"
    ELSE "none"

\* Image.open(path).convert("RGB"): three channels, any alpha dropped
Decode(file) ==
    [i \in 1..Len(file) |->
        [j \in 1..Len(file[i]) |-> <<file[i][j][1], file[i][j][2], file[i][j][3]>>]]

\* a check of the heights alone
ShapeHeightOnly(img) == <<Len(img), 1>>

\* img.shape without the channel axis, which convert("RGB") makes 3
Shape(img) == <<Len(img), Len(img[1])>>

\* a comparison that only rejects a larger first image
MismatchOrdered(w, b) ==
    Len(w) > Len(b) \/ (Len(w) = Len(b) /\ Len(w[1]) > Len(b[1]))

\* img_white.shape != img_black.shape
DimensionMismatch(w, b) == Shape(w) # Shape(b)

Max(a, b) == IF a >= b THEN a ELSE b

\* the index sets of an elementwise operation on two arrays, and the element
\* of one operand at an index of the result (numpy broadcasting: an axis of
\* length 1 is repeated)
BRows(a, b) == 1..Max(Len(a), Len(b))

BCols(a, b) == 1..Max(Len(a[1]), Len(b[1]))

\* every column read from the first column
AtFirstColumn(a, i, j) == a[IF Len(a) = 1 THEN 1 ELSE i][1]

At(a, i, j) == a[IF Len(a) = 1 THEN 1 ELSE i][IF Len(a[1]) = 1 THEN 1 ELSE j]

Sq(x) == x * x

\* the distance of white and black along one channel only
BgDistOneChannel == 255 * 255

\* a channel range of 256 values taken for a largest value of 256
BgDistSquared256 == 3 * 256 * 256

\* 3.0 * 255 * 255
BgDistSquared == 3 * 255 * 255

\* sqrt((Rw-Rb)**2 + (Gw-Gb)**2 + (Bw-Bb)**2) of two pixels
PixelDist(w, b) == FSqrt(FromInt(Sq(w[1] - b[1]) + Sq(w[2] - b[2]) + Sq(w[3] - b[3])))

\* the ratio itself, not its complement
AlphaInverted(dist, bg) == FDiv(dist, bg)

\* 1.0 - (pixel_dist / bg_dist)
AlphaOf(dist, bg) == FSub(FOne, FDiv(dist, bg))

\* the constant 0.01 as a binary64: 0x1.47ae147ae147bp-7
Threshold == <<1, <<5368709, 128849019>>, -59>>

\* alpha > 0.01
Mask(a) == FLess(Threshold, a)

\* no replacement of the near-zero alphas
AlphaUnsafe(a) == a

\* np.where(alpha > 0.01, alpha, 1.0)
AlphaSafe(a) == IF Mask(a) THEN a ELSE FOne

\* img_black[:, :, c] / alpha_safe
Recover(c, as) == FDiv(FromInt(c), as)

\* no zeroing of the near-transparent pixels
KeepColor(a, v) == v

\* np.where(alpha > 0.01, r_out, 0)
ZeroTransparent(a, v) == IF Mask(a) THEN v ELSE FZero

(***************************************************************************)
(* State: the file system, and the local variables of the last call of     *)
(* extract_alpha_two_pass with the exception it raised.                    *)
(***************************************************************************)
VARIABLES files, calls, args, raised, img_white, img_black, bg_dist,
          pixel_dist, alpha_raw, alpha, alpha_safe, r_div, g_div, b_div,
          r_out, g_out, b_out, output, prev,
          argv, exit_status, propagated,
          white_path, black_path, last_output_path, is_processing,
          output_var, status, open_output_btn, input_buttons, dialog,
          opened_folder

locals == <<img_white, img_black, bg_dist, pixel_dist, alpha_raw, alpha,
            alpha_safe, r_div, g_div, b_div, r_out, g_out, b_out, output>>

\* a run of the command line: sys.argv and what main did
cli == <<argv, exit_status, propagated>>

\* the window: the fields of PngAlphaGui, the state of its buttons, the
\* modal dialog it is waiting in, and the folder last handed to the file
\* manager
gui == <<white_path, black_path, last_output_path, is_processing, output_var,
         status, open_output_btn, input_buttons, dialog, opened_folder>>

\* the file system and the last call of extract_alpha_two_pass
engine == <<files, calls, args, raised, locals, prev>>

vars == <<engine, cli, gui>>

\* what a call did, kept to compare it with the next call
Outcome ==
    [args |-> args, raised |-> raised, img_white |-> img_white,
     img_black |-> img_black, pixel_dist |-> pixel_dist, output |-> output]

FilesOf(w, b) ==
    [p \in Paths |-> IF p = "white" THEN w ELSE IF p = "black" THEN b ELSE NoFile]

\* no command line has run
CliStart ==
    /\ argv = Unset
    /\ exit_status = Unset
    /\ propagated = "none"

\* extract_alpha_two_pass has not been called
NotCalled ==
    /\ calls = 0
    /\ args = Unset
    /\ raised = "none"
    /\ img_white = Unset
    /\ img_black = Unset
    /\ bg_dist = Unset
    /\ pixel_dist = Unset
    /\ alpha_raw = Unset
    /\ alpha = Unset
    /\ alpha_safe = Unset
    /\ r_div = Unset
    /\ g_div = Unset
    /\ b_div = Unset
    /\ r_out = Unset
    /\ g_out = Unset
    /\ b_out = Unset
    /\ output = Unset
    /\ prev = Unset

None == <<>>

\* output_var of a window with no output: "-"
Dash == <<"-">>

\* PngAlphaGui.__init__, with tkinterdnd2 installed
GuiStart ==
    /\ white_path = None
    /\ black_path = None
    /\ last_output_path = None
    /\ is_processing = FALSE
    /\ output_var = Dash
    /\ status = "idle"
    /\ open_output_btn = "disabled"
    /\ input_buttons = "normal"
    /\ dialog = "none"
    /\ opened_folder = None

Init ==
    /\ \/ \E w \in ImagesOver(SmallPalette), b \in ImagesOver(SmallPalette) :
            files = FilesOf(w, b)
       \/ \E c1 \in PixelCases, c2 \in PixelCases :
            files = FilesOf(<<(<<c1[1], c2[1]>>)>>, <<(<<c1[2], c2[2]>>)>>)
    /\ NotCalled
    /\ CliStart
    /\ GuiStart

\* lines 25-26
Load(wp, bp) ==
    /\ img_white' = Decode(files[wp])
    /\ img_black' = Decode(files[bp])

\* an exception leaves the function: nothing after it runs
Fail(exc) ==
    /\ raised' = exc
    /\ bg_dist' = Unset
    /\ pixel_dist' = Unset
    /\ alpha_raw' = Unset
    /\ alpha' = Unset
    /\ alpha_safe' = Unset
    /\ r_div' = Unset
    /\ g_div' = Unset
    /\ b_div' = Unset
    /\ r_out' = Unset
    /\ g_out' = Unset
    /\ b_out' = Unset
    /\ output' = Unset
    /\ files' = files

\* line 30
Raise == Fail("ValueError")

\* lines 34-45
ComputeAlpha ==
    /\ bg_dist' = FSqrt(FromInt(BgDistSquared))
    /\ pixel_dist' =
         [i \in BRows(img_white', img_black') |->
             [j \in BCols(img_white', img_black') |->
                 PixelDist(At(img_white', i, j), At(img_black', i, j))]]
    /\ alpha_raw' =
         [i \in 1..Len(pixel_dist') |-> [j \in 1..Len(pixel_dist'[i]) |->
             AlphaOf(pixel_dist'[i][j], bg_dist')]]
    /\ alpha' =
         [i \in 1..Len(alpha_raw') |-> [j \in 1..Len(alpha_raw'[i]) |->
             FClip(alpha_raw'[i][j], FZero, FOne)]]

\* lines 48-58
ComputeColor ==
    /\ alpha_safe' =
         [i \in 1..Len(alpha') |-> [j \in 1..Len(alpha'[i]) |->
             AlphaSafe(alpha'[i][j])]]
    /\ r_div' =
         [i \in BRows(img_black', alpha_safe') |->
             [j \in BCols(img_black', alpha_safe') |->
                 Recover(At(img_black', i, j)[1], At(alpha_safe', i, j))]]
    /\ g_div' =
         [i \in BRows(img_black', alpha_safe') |->
             [j \in BCols(img_black', alpha_safe') |->
                 Recover(At(img_black', i, j)[2], At(alpha_safe', i, j))]]
    /\ b_div' =
         [i \in BRows(img_black', alpha_safe') |->
             [j \in BCols(img_black', alpha_safe') |->
                 Recover(At(img_black', i, j)[3], At(alpha_safe', i, j))]]
    /\ r_out' =
         [i \in BRows(alpha', r_div') |-> [j \in BCols(alpha', r_div') |->
             ZeroTransparent(At(alpha', i, j), At(r_div', i, j))]]
    /\ g_out' =
         [i \in BRows(alpha', g_div') |-> [j \in BCols(alpha', g_div') |->
             ZeroTransparent(At(alpha', i, j), At(g_div', i, j))]]
    /\ b_out' =
         [i \in BRows(alpha', b_div') |-> [j \in BCols(alpha', b_div') |->
             ZeroTransparent(At(alpha', i, j), At(b_div', i, j))]]

\* a quantization with noise from a generator that advances at every call
QuantizeDithered(v) ==
    IF calls % 2 = 1 /\ RoundClip(v) < 255 THEN RoundClip(v) + 1 ELSE RoundClip(v)

\* np.clip(np.round(v), 0, 255).astype(np.uint8)
Quantize(v) == RoundClip(v)

\* the channels stacked in the order of a BGR image library
StackBGRA(r, g, b, a) == <<b, g, r, a>>

\* np.stack([r_out, g_out, b_out, a_out], axis=2), at one pixel
Stack(r, g, b, a) == <<r, g, b, a>>

\* lines 61-68: quantize, stack into RGBA, save
Save(op) ==
    /\ output' =
         [i \in 1..Len(r_out') |-> [j \in 1..Len(r_out'[i]) |->
             Stack(Quantize(r_out'[i][j]), Quantize(g_out'[i][j]),
                   Quantize(b_out'[i][j]),
                   Quantize(FMulSmall(At(alpha', i, j), 255)))]]
    /\ files' = [files EXCEPT ![op] = output']

\* extract_alpha_two_pass(img_on_white_path, img_on_black_path, output_path)
Extract(wp, bp, op) ==
    /\ calls < MaxCalls
    /\ calls' = calls + 1
    /\ args' = <<wp, bp, op>>
    /\ prev' = Outcome
    /\ IF OpenError(files[wp]) # "none"
       THEN /\ img_white' = Unset
            /\ img_black' = Unset
            /\ Fail(OpenError(files[wp]))
       ELSE IF OpenError(files[bp]) # "none"
       THEN /\ img_white' = Decode(files[wp])
            /\ img_black' = Unset
            /\ Fail(OpenError(files[bp]))
       ELSE /\ Load(wp, bp)
            /\ IF DimensionMismatch(img_white', img_black')
               THEN Raise
               ELSE /\ raised' = "none"
                    /\ ComputeAlpha
                    /\ ComputeColor
                    /\ Save(op)

Next ==
    \E wp \in InPaths : \E bp \in InPaths \ {wp} : \E op \in OutPaths :
        Extract(wp, bp, op) /\ UNCHANGED <<cli, gui>>

Spec == Init /\ [][Next]_vars

(***************************************************************************)
(* The command line (pngalpha.cli.main).  cli.py carries its own copy of   *)
(* extract_alpha_two_pass, line for line the one of core.py.               *)
(***************************************************************************)
ProgramName == "pngalpha"

\* sys.argv: the program name with no, one or two paths, or with two
\* input paths and an output path
Argvs ==
    {<<ProgramName>>, <<ProgramName, "white">>, <<ProgramName, "white", "black">>}
    \cup {<<ProgramName, a, b, o>> : a \in Paths, b \in Paths, o \in OutPaths}

\* the files of a run: a 1x1 white capture, a black capture of the same or
\* of another size, or no image at all under the black name
CliFiles ==
    {FilesOf(<<(<<(<<255, 255, 255>>)>>)>>, b) :
        b \in {<<(<<(<<0, 0, 0>>)>>)>>,
                <<(<<(<<0, 0, 0>>), (<<0, 0, 0>>)>>)>>,
                NotAnImage}}

\* main did not return: an exception left it
NoStatus == -1

\* a clause that catches ValueError alone
CaughtValueErrorOnly(exc) == exc = "ValueError"

\* except Exception: every exception of the extraction is an Exception
Caught(exc) == exc \in {"ValueError", "FileNotFoundError", "UnidentifiedImageError"}

\* if len(sys.argv) < 4: ... return 1
Usage ==
    /\ exit_status' = 1
    /\ propagated' = "none"
    /\ UNCHANGED engine

\* main() started with the command line av
Main(av) ==
    /\ argv' = av
    /\ IF Len(av) < 4
       THEN Usage
       ELSE /\ Extract(av[2], av[3], av[4])
            /\ exit_status' =
                 IF raised' = "none" THEN 0
                 ELSE IF Caught(raised') THEN 1
                 ELSE NoStatus
            /\ propagated' =
                 IF raised' = "none" \/ Caught(raised') THEN "none" ELSE raised'

CliInit ==
    /\ files \in CliFiles
    /\ NotCalled
    /\ CliStart
    /\ GuiStart

CliNext == \E av \in Argvs : Main(av) /\ UNCHANGED gui

CliSpec == CliInit /\ [][CliNext]_vars

(***************************************************************************)
(* The window (pngalpha.gui.PngAlphaGui).  A path is <<directory, name>>,  *)
(* a directory the sequence of its components and a name the sequence of   *)
(* its pieces, each piece a dot or a run of characters without a dot, so   *)
(* that pathlib's stem and suffix are                                      *)
(* computed here as pathlib computes them.                                 *)
(***************************************************************************)
Dot == "."

Name(path) == path[2]

Parent(path) == path[1]

\* name.rfind("."), counted in pieces; 0 when the name has no dot
RECURSIVE LastDot(_, _)
LastDot(name, i) ==
    IF i = 0 THEN 0 ELSE IF name[i] = Dot THEN i ELSE LastDot(name, i - 1)

\* pathlib: 0 < i < len(name) - 1, a dot that is neither first nor last
HasSuffix(name) == LastDot(name, Len(name)) > 1 /\ LastDot(name, Len(name)) < Len(name)

Suffix(name) ==
    IF HasSuffix(name) THEN SubSeq(name, LastDot(name, Len(name)), Len(name)) ELSE <<>>

Stem(name) ==
    IF HasSuffix(name) THEN SubSeq(name, 1, LastDot(name, Len(name)) - 1) ELSE name

WithName(path, name) == <<Parent(path), name>>

\* str.lower() on the pieces in use
Lower(name) == [i \in 1..Len(name) |-> IF name[i] = "PNG" THEN "png" ELSE name[i]]

SUPPORTED_SUFFIXES ==
    {<<Dot, "png">>, <<Dot, "jpg">>, <<Dot, "jpeg">>, <<Dot, "bmp">>,
     <<Dot, "webp">>, <<Dot, "tif">>, <<Dot, "tiff">>}

\* white_path.with_name(f"{white_path.stem}_transparent.png")
_suggest_output_path(path) ==
    WithName(path, Stem(Name(path)) \o <<"_transparent", Dot, "png">>)

\* the paths a user drops or picks: a capture, a capture of another size,
\* a file that is no image, and the name the window gives to the output of
\* the first capture, which names no file until a conversion writes it
Selectable ==
    {<<<<"d">>, <<"a", Dot, "png">>>>,
     <<<<"d">>, <<"wide", Dot, "PNG">>>>,
     <<<<"d">>, <<"notes", Dot, "txt">>>>,
     <<<<"d">>, <<"a", "_transparent", Dot, "png">>>>}

GuiPaths == Selectable \cup {_suggest_output_path(path) : path \in Selectable}

GuiFiles ==
    [path \in GuiPaths |->
        IF Name(path) = <<"a", Dot, "png">> THEN <<(<<(<<200, 100, 100>>)>>)>>
        ELSE IF Name(path) = <<"wide", Dot, "PNG">>
            THEN <<(<<(<<255, 255, 255>>), (<<0, 0, 0>>)>>)>>
        ELSE IF Name(path) = <<"notes", Dot, "txt">> THEN NotAnImage
        ELSE NoFile]

\* the Open Folder button enabled whatever the conversion did
ButtonAlwaysNormal(exc) == "normal"

\* lines 603-608: _set_open_output_button_state(True) in the else clause only
ButtonAfter(exc) == IF exc = "none" THEN "normal" ELSE "disabled"

\* lines 588-611, up to the return of extract_alpha_two_pass or the error
\* dialog of the except clause; the finally clause runs when that dialog
\* is closed
Convert ==
    /\ last_output_path' = _suggest_output_path(white_path')
    /\ output_var' = _suggest_output_path(white_path')
    /\ Extract(white_path', black_path', _suggest_output_path(white_path'))
    /\ open_output_btn' = ButtonAfter(raised')
    /\ IF raised' = "none"
       THEN /\ status' = "ok"
            /\ input_buttons' = "normal"
            /\ is_processing' = FALSE
            /\ dialog' = dialog
       ELSE /\ status' = "error"
            /\ input_buttons' = "disabled"
            /\ is_processing' = TRUE
            /\ dialog' = "conversion_failed"

\* _auto_convert_if_ready, after the handler set white_path or black_path
_auto_convert_if_ready ==
    IF is_processing
    THEN UNCHANGED <<engine, last_output_path, is_processing, output_var,
                     status, open_output_btn, input_buttons, dialog>>
    ELSE IF white_path' = None \/ black_path' = None
    THEN /\ status' = "idle"
         /\ UNCHANGED <<engine, last_output_path, is_processing, output_var,
                        open_output_btn, input_buttons, dialog>>
    ELSE Convert

\* _extract_dropped_image_path returns None: not a file, or a suffix that
\* is not supported
DropRejected(path) ==
    files[path] = NoFile \/ Lower(Suffix(Name(path))) \notin SUPPORTED_SUFFIXES

\* the handler returns after the error dialog of the rejected drop
RejectDrop ==
    /\ status' = "error"
    /\ UNCHANGED <<engine, white_path, black_path, last_output_path,
                   is_processing, output_var, open_output_btn, input_buttons,
                   dialog>>

\* a drop reaches the window whether or not a dialog is open: the grab of a
\* modal dialog holds back the pointer and the keyboard, not the messages
\* of a drag from another program
_on_drop_white(path) ==
    /\ UNCHANGED opened_folder
    /\ IF DropRejected(path)
       THEN RejectDrop
       ELSE /\ white_path' = path
            /\ black_path' = black_path
            /\ _auto_convert_if_ready

_on_drop_black(path) ==
    /\ UNCHANGED opened_folder
    /\ IF DropRejected(path)
       THEN RejectDrop
       ELSE /\ black_path' = path
            /\ white_path' = white_path
            /\ _auto_convert_if_ready

\* the Browse buttons: enabled, and no dialog holds the pointer; the file
\* dialog returns a file that exists, of any suffix
_browse_white(selected) ==
    /\ input_buttons = "normal"
    /\ dialog = "none"
    /\ files[selected] # NoFile
    /\ UNCHANGED opened_folder
    /\ white_path' = selected
    /\ black_path' = black_path
    /\ _auto_convert_if_ready

_browse_black(selected) ==
    /\ input_buttons = "normal"
    /\ dialog = "none"
    /\ files[selected] # NoFile
    /\ UNCHANGED opened_folder
    /\ black_path' = selected
    /\ white_path' = white_path
    /\ _auto_convert_if_ready

\* the error dialog of line 605 is closed: the finally clause
CloseDialog ==
    /\ dialog = "conversion_failed"
    /\ dialog' = "none"
    /\ input_buttons' = "normal"
    /\ is_processing' = FALSE
    /\ UNCHANGED <<engine, white_path, black_path, last_output_path,
                   output_var, status, open_output_btn, opened_folder>>

\* the Reset button
_reset ==
    /\ dialog = "none"
    /\ white_path' = None
    /\ black_path' = None
    /\ last_output_path' = None
    /\ output_var' = Dash
    /\ input_buttons' = "normal"
    /\ open_output_btn' = "disabled"
    /\ status' = "idle"
    /\ UNCHANGED <<engine, is_processing, dialog, opened_folder>>

\* the Open Folder button: the folder of last_output_path, which exists as
\* it is the folder of the white capture, is handed to the file manager
_open_output_folder ==
    /\ open_output_btn = "normal"
    /\ dialog = "none"
    /\ last_output_path # None
    /\ opened_folder' = Parent(last_output_path)
    /\ UNCHANGED <<engine, white_path, black_path, last_output_path,
                   is_processing, output_var, status, open_output_btn,
                   input_buttons, dialog>>

GuiInit ==
    /\ files = GuiFiles
    /\ NotCalled
    /\ CliStart
    /\ GuiStart

GuiNext ==
    \/ \E path \in Selectable : _on_drop_white(path) /\ UNCHANGED cli
    \/ \E path \in Selectable : _on_drop_black(path) /\ UNCHANGED cli
    \/ \E selected \in Selectable : _browse_white(selected) /\ UNCHANGED cli
    \/ \E selected \in Selectable : _browse_black(selected) /\ UNCHANGED cli
    \/ CloseDialog /\ UNCHANGED cli
    \/ _reset /\ UNCHANGED cli
    \/ _open_output_folder /\ UNCHANGED cli

GuiSpec == GuiInit /\ [][GuiNext]_vars

(***************************************************************************)
(* Properties.                                                             *)
(***************************************************************************)
SameDims(a, b) == Len(a) = Len(b) /\ Len(a[1]) = Len(b[1])

Pixels(arr) == {<<i, j>> : i \in 1..Len(arr), j \in 1..Len(arr[1])}

\* C1: a call whose two decoded buffers differ in height or in width raises
\* ValueError, computes no pixel (no local after the check is set) and
\* leaves every file, the output file included, as it was before the call.
C1_MismatchRaisesAndWritesNothing ==
    [][(calls' = calls + 1 /\ ~SameDims(img_white', img_black'))
         => /\ raised' = "ValueError"
            /\ files' = files
            /\ bg_dist' = Unset
            /\ pixel_dist' = Unset
            /\ alpha' = Unset
            /\ r_out' = Unset
            /\ output' = Unset]_vars

\* a 2x1 white capture with a 1x1 black capture: raised, no output file
C1_Witness ==
    /\ calls > 0
    /\ raised = "ValueError"
    /\ Len(img_white) = 2
    /\ Len(img_black) = 1
    /\ files["out"] = NoFile

\* C2: a call on two buffers of the same height and width completes and
\* writes its output; no division has a zero divisor, whatever the alpha
\* (0 and values at or below 0.01 included); ValueError on a dimension
\* mismatch is the only exception of the engine.
C2_SameShapeCompletes ==
    calls > 0 =>
        /\ raised \in {"none", "ValueError"}
        /\ raised = "ValueError" => ~SameDims(img_white, img_black)
        /\ SameDims(img_white, img_black) =>
            /\ raised = "none"
            /\ SameDims(output, img_white)
            /\ files[args[3]] = output
            /\ \A p \in Pixels(alpha_safe) :
                /\ alpha_safe[p[1]][p[2]][1] = 1
                /\ r_div[p[1]][p[2]] # DivByZero
                /\ g_div[p[1]][p[2]] # DivByZero
                /\ b_div[p[1]][p[2]] # DivByZero

\* one pixel of alpha exactly 0 and one of alpha in (0, 0.01]
C2_Witness ==
    /\ calls > 0
    /\ raised = "none"
    /\ \E p \in Pixels(alpha), q \in Pixels(alpha) :
        /\ alpha[p[1]][p[2]] = FZero
        /\ alpha[q[1]][q[2]] # FZero
        /\ ~FLess(Threshold, alpha[q[1]][q[2]])

\* C3: a pixel whose white capture equals its black capture comes out with
\* alpha 255 and the colour of the black capture unchanged.
C3_IdenticalPixelOpaque ==
    (calls > 0 /\ raised = "none") =>
        \A p \in Pixels(output) :
            img_white[p[1]][p[2]] = img_black[p[1]][p[2]] =>
                output[p[1]][p[2]] =
                    <<img_black[p[1]][p[2]][1], img_black[p[1]][p[2]][2],
                      img_black[p[1]][p[2]][3], 255>>

\* (200,50,50) over both backgrounds gives (200,50,50,255)
C3_Witness ==
    /\ calls > 0
    /\ raised = "none"
    /\ \E p \in Pixels(output) :
        /\ img_white[p[1]][p[2]] = <<200, 50, 50>>
        /\ img_black[p[1]][p[2]] = <<200, 50, 50>>
        /\ output[p[1]][p[2]] = <<200, 50, 50, 255>>

\* C4: a pixel whose every channel differs by 255 between the two captures
\* (pixel_dist = bg_dist) comes out as (0,0,0,0).
C4_FullDistanceTransparent ==
    (calls > 0 /\ raised = "none") =>
        \A p \in Pixels(output) :
            (\A c \in 1..3 :
                Sq(img_white[p[1]][p[2]][c] - img_black[p[1]][p[2]][c]) = Sq(255))
            => output[p[1]][p[2]] = <<0, 0, 0, 0>>

\* white capture (255,255,255), black capture (0,0,0): (0,0,0,0)
C4_Witness ==
    /\ calls > 0
    /\ raised = "none"
    /\ \E p \in Pixels(output) :
        /\ img_white[p[1]][p[2]] = <<255, 255, 255>>
        /\ img_black[p[1]][p[2]] = <<0, 0, 0>>
        /\ pixel_dist[p[1]][p[2]] = bg_dist
        /\ output[p[1]][p[2]] = <<0, 0, 0, 0>>

\* C5: the masked computation equals the branch on the clamped alpha: above
\* 0.01 each colour channel is the black-capture channel divided by alpha,
\* rounded and clamped; at or below 0.01 the colour is (0,0,0); in both
\* cases the alpha channel is the quantized alpha.
C5_MaskedEqualsBranch ==
    (calls > 0 /\ raised = "none") =>
        \A p \in Pixels(output) :
            LET a == alpha[p[1]][p[2]]
                c == img_black[p[1]][p[2]]
            IN  /\ a = FClip(alpha_raw[p[1]][p[2]], FZero, FOne)
                /\ output[p[1]][p[2]] =
                     IF FLess(Threshold, a)
                     THEN <<RoundClip(FDiv(FromInt(c[1]), a)),
                            RoundClip(FDiv(FromInt(c[2]), a)),
                            RoundClip(FDiv(FromInt(c[3]), a)),
                            RoundClip(FMulSmall(a, 255))>>
                     ELSE <<0, 0, 0, RoundClip(FMulSmall(a, 255))>>

\* white (255,255,255) with black (2,2,2): colour (0,0,0), alpha 2, next to
\* a pixel above the threshold whose colour is divided
C5_Witness ==
    /\ calls > 0
    /\ raised = "none"
    /\ \E p \in Pixels(output), q \in Pixels(output) :
        /\ img_white[p[1]][p[2]] = <<255, 255, 255>>
        /\ img_black[p[1]][p[2]] = <<2, 2, 2>>
        /\ output[p[1]][p[2]] = <<0, 0, 0, 2>>
        /\ FLess(Threshold, alpha[q[1]][q[2]])
        /\ FLess(alpha[q[1]][q[2]], FOne)
        /\ output[q[1]][q[2]][1] > img_black[q[1]][q[2]][1]

\* the pixel_dist and the quantized alpha of every pixel of a completed call
DistAlpha(dist, out) == {<<dist[p[1]][p[2]], out[p[1]][p[2]][4]>> : p \in Pixels(out)}

\* C6: the quantized output alpha is a monotone non-increasing function of
\* pixel_dist (over the pixels of one call and of two successive calls: a
\* pixel of no larger distance has no smaller alpha), and lies in 0..255.
C6_AlphaMonotoneInDistance ==
    (calls > 0 /\ raised = "none") =>
        LET cur == DistAlpha(pixel_dist, output)
            old == IF calls >= 2 /\ prev.raised = "none"
                   THEN DistAlpha(prev.pixel_dist, prev.output) ELSE {}
        IN  \A x \in cur \cup old :
                /\ x[2] \in 0..255
                /\ \A y \in cur \cup old :
                    (~FLess(y[1], x[1])) => x[2] >= y[2]

\* two pixels of one call, the nearer pair strictly more opaque, neither at
\* an end of the range
C6_Witness ==
    /\ calls > 0
    /\ raised = "none"
    /\ \E x \in DistAlpha(pixel_dist, output), y \in DistAlpha(pixel_dist, output) :
        /\ FLess(x[1], y[1])
        /\ x[2] < 255
        /\ x[2] > y[2]
        /\ y[2] > 0

\* C7: a completed call yields an image of the height and width of both
\* inputs whose pixels have exactly four channels, red, green, blue and
\* alpha in that order, each an integer in 0..255.
C7_OutputShapeAndRange ==
    (calls > 0 /\ raised = "none") =>
        /\ SameDims(output, img_white)
        /\ SameDims(output, img_black)
        /\ \A p \in Pixels(output) :
            LET px == output[p[1]][p[2]]
            IN  /\ Len(px) = 4
                /\ \A c \in 1..4 : px[c] \in 0..255
                /\ px[1] = RoundClip(r_out[p[1]][p[2]])
                /\ px[2] = RoundClip(g_out[p[1]][p[2]])
                /\ px[3] = RoundClip(b_out[p[1]][p[2]])
                /\ px[4] = RoundClip(FMulSmall(alpha[p[1]][p[2]], 255))

\* a 1x2 output with a pixel whose four channels all differ
C7_Witness ==
    /\ calls > 0
    /\ raised = "none"
    /\ Len(output) = 1
    /\ Len(output[1]) = 2
    /\ \E p \in Pixels(output) :
        Cardinality({output[p[1]][p[2]][c] : c \in 1..4}) = 4

C10_ShapeCheckSymmetric ==
    /\ calls > 0 =>
        (raised = "ValueError" <=>
            (Len(img_white) # Len(img_black) \/ Len(img_white[1]) # Len(img_black[1])))
    /\ (calls >= 2 /\ prev.img_white = img_black /\ prev.img_black = img_white) =>
        (prev.raised = "ValueError" <=> raised = "ValueError")

\* the same two files in both orders, heights different and widths equal,
\* raised both times
C10_Witness ==
    /\ calls >= 2
    /\ prev.args[1] = args[2]
    /\ prev.args[2] = args[1]
    /\ prev.raised = "ValueError"
    /\ raised = "ValueError"
    /\ Len(img_white) < Len(img_black)
    /\ Len(img_white[1]) = Len(img_black[1])

\* C11: main returns 0 exactly when the extraction ran and completed
\* without raising; with fewer than three arguments it returns 1 and never
\* calls the extraction; every exception of the extraction becomes a
\* return of 1 and none propagates.
C11_ExitStatus ==
    [][/\ propagated' = "none"
       /\ exit_status' \in {0, 1}
       /\ exit_status' = 0 <=> (calls' = calls + 1 /\ raised' = "none")
       /\ Len(argv') < 4 =>
            /\ exit_status' = 1
            /\ calls' = calls
            /\ files' = files
       /\ (calls' = calls + 1 /\ raised' # "none") => exit_status' = 1]_vars

\* a run on a missing input returned 1 and then a run on a dimension
\* mismatch returned 1, the output file still missing
C11_Witness ==
    /\ calls >= 2
    /\ Len(argv) = 4
    /\ prev.raised = "FileNotFoundError"
    /\ raised = "ValueError"
    /\ exit_status = 1
    /\ files[argv[4]] = NoFile

\* C13: for 8-bit inputs pixel_dist never exceeds bg_dist, so alpha_raw
\* lies in [0, 1] and np.clip(alpha, 0.0, 1.0) returns it unchanged.
C13_ClampIsIdentity ==
    (calls > 0 /\ raised = "none") =>
        \A p \in Pixels(alpha) :
            /\ ~FLess(bg_dist, pixel_dist[p[1]][p[2]])
            /\ ~FLess(alpha_raw[p[1]][p[2]], FZero)
            /\ ~FLess(FOne, alpha_raw[p[1]][p[2]])
            /\ alpha[p[1]][p[2]] = alpha_raw[p[1]][p[2]]

\* both ends of the range in one image: a pixel at distance bg_dist with
\* alpha_raw 0.0 and a pixel at distance 0 with alpha_raw 1.0
C13_Witness ==
    /\ calls > 0
    /\ raised = "none"
    /\ \E p \in Pixels(alpha), q \in Pixels(alpha) :
        /\ pixel_dist[p[1]][p[2]] = bg_dist
        /\ alpha_raw[p[1]][p[2]] = FZero
        /\ pixel_dist[q[1]][q[2]] = FZero
        /\ alpha_raw[q[1]][q[2]] = FOne

\* C12: conversion starts automatically: once the window is idle with both
\* the white path and the black path set, the most recent conversion
\* attempt is an attempt on exactly that pair of paths.
C12_ConvertsCurrentPair ==
    (white_path # None /\ black_path # None /\ dialog = "none" /\ ~is_processing) =>
        /\ calls > 0
        /\ args[1] = white_path
        /\ args[2] = black_path

\* C14: the path a conversion of the window writes to is neither of the
\* two paths it reads.
C14_OutputIsNoInput ==
    calls > 0 => (args[3] # args[1] /\ args[3] # args[2])

\* C15: the Open Folder button is enabled only if the most recent
\* conversion completed and no Reset came after it, last_output_path then
\* naming the file that conversion wrote; it is disabled at startup, while
\* a conversion is in progress, after a failed conversion and after Reset.
C15_OpenFolderOnlyAfterSuccess ==
    /\ open_output_btn = "normal" =>
        /\ calls > 0
        /\ raised = "none"
        /\ ~is_processing
        /\ dialog = "none"
        /\ last_output_path # None
        /\ last_output_path = args[3]
        /\ files[last_output_path] = output
    /\ (calls = 0 \/ is_processing \/ raised # "none" \/ last_output_path = None)
        => open_output_btn = "disabled"

\* the button enabled by a conversion that followed a failed one, and used
C15_Witness ==
    /\ calls >= 2
    /\ prev.raised = "ValueError"
    /\ raised = "none"
    /\ open_output_btn = "normal"
    /\ opened_folder = Parent(last_output_path)

====
